---- MODULE Spec2Model ----
(***************************************************************************)
(* Model of the weighted generative engine of c_gen_adv.py: the generator  *)
(* registry, the generation state, the fifteen generator units and the     *)
(* assembly loop of build_c; and of task_binary_search of                  *)
(* c_task_factory_advanced.py with the program it emits.                   *)
(*                                                                         *)
(* Text is modelled by what the properties read of it: a fragment is a     *)
(* record [kind, nl, brace, data] where nl is snippet.count("\n"), brace   *)
(* is the brace placement of the fragment and data holds the identifiers,  *)
(* types and signatures the fragment carries.  Characters that depend on   *)
(* nothing but the random source (comment tags, macro names, member names, *)
(* numeric literals) are left out of data.                                 *)
(*                                                                         *)
(* random.Random is modelled by nondeterministic draws.  list(s) of a set  *)
(* s of strings has an order that depends on the hash seed of the process, *)
(* so it is any enumeration of s.                                          *)
(***************************************************************************)
EXTENDS Integers, Sequences, FiniteSets, TLC

VARIABLES
    registry,    \* _REGISTRY: kind -> name of the generator function
    reg_call,    \* the last register(kind)(fn) call and whether it raised
    cfg,         \* the CConfig handed to build_c
    pc,          \* "start" | "loop" | "done" | "failed": position in build_c
                 \* ("import" while the decorators run, "task" for a task run)
    error,       \* the exception that ended build_c, "" when none
    state,       \* the state dict of build_c (without the rng)
    parts,       \* the list parts
    lines,       \* the running count lines
    last,        \* the unit invoked last: its kind and the snippet it returned
    tick,        \* parity of the number of loop iterations (the rng advances)
    main_calls,  \* gen_main invocations so far: 0, 1, 2 (= two or more)
    twin,        \* a second process running build_c on the same cfg and seed
    task         \* one call of task_binary_search and the run of the program it emits

vars == <<registry, reg_call, cfg, pc, error, state, parts, lines, last, tick,
          main_calls, twin, task>>

(***************************************************************************)
(* Bounds of the model                                                     *)
(***************************************************************************)
\* largest cfg.loc of the configurations with the default weights
SmallLoc == 3
\* largest cfg.loc of the configurations that weight typedef, enum and var_decl,
\* or func_decl and func_def
MaxLoc == 4
\* largest cfg.loc of the configurations that weight one unit, or main and a macro
LongLoc == 8
\* how many distinct kinds register() is called with in SpecReg
MaxReg == 5

\* the identifiers fresh_name returns in the model: of 3 to 6 letters (aliases,
\* aggregates) and of the default 6 letters (functions)
Names == {"qwe", "rty"}
LongNames == {"qwerty"}

\* the entries of BASE_CTYPES a draw rng.choice(BASE_CTYPES + extra) reaches in
\* the model (every entry of extra is reached)
BasePicks == {1}

(***************************************************************************)
(* Sequence helpers                                                        *)
(***************************************************************************)
Range(s) == {s[i] : i \in 1..Len(s)}

\* list(s) for a set s: any enumeration of s without repetition
ListsOf(S) ==
    {l \in [1..Cardinality(S) -> S] : \A i, j \in 1..Cardinality(S) : l[i] = l[j] => i = j}

RECURSIVE SumNl(_)
\* "".join(parts).count("\n")
SumNl(ps) == IF ps = <<>> THEN 0 ELSE ps[1].nl + SumNl(Tail(ps))

(***************************************************************************)
(* Config & registry                                                       *)
(***************************************************************************)
\* the kinds in the order of their @register decorators
KINDS == <<"comment", "include", "define_macro", "define_macro_f", "typedef",
           "enum", "union", "struct", "var_decl", "func_decl", "func_def",
           "switch", "conditional", "loop", "main">>

\* the function each decorator binds
GENS == <<"gen_comment", "gen_include", "gen_define_macro", "gen_define_macro_func",
          "gen_typedef", "gen_enum", "gen_union", "gen_struct", "gen_var_decl",
          "gen_func_decl", "gen_func_def", "gen_switch", "gen_conditional",
          "gen_loop", "gen_main">>

\* _REGISTRY once the module is imported
ModuleRegistry == [k \in Range(KINDS) |-> GENS[CHOOSE i \in 1..Len(KINDS) : KINDS[i] = k]]

\* CConfig.weights default, in dict order, in hundredths
DefaultWeights ==
    << <<"comment", 7>>, <<"include", 7>>, <<"define_macro", 4>>,
       <<"define_macro_f", 4>>, <<"typedef", 8>>, <<"enum", 6>>, <<"union", 5>>,
       <<"struct", 7>>, <<"var_decl", 12>>, <<"func_decl", 8>>, <<"func_def", 8>>,
       <<"switch", 5>>, <<"main", 7>>, <<"conditional", 6>>, <<"loop", 6>> >>

\* register(kind)(fn) overwriting an existing entry instead of raising
register_overwrite(reg, kind, fn) ==
    [registry |-> [k \in (DOMAIN reg) \cup {kind} |-> IF k = kind THEN fn ELSE reg[k]],
     raised   |-> FALSE]

\* register(kind)(fn): the registry after the call and whether ValueError was raised
register(reg, kind, fn) ==
    IF kind \in DOMAIN reg
    THEN [registry |-> reg, raised |-> TRUE]
    ELSE [registry |-> [k \in (DOMAIN reg) \cup {kind} |-> IF k = kind THEN fn ELSE reg[k]],
          raised   |-> FALSE]

(***************************************************************************)
(* Helpers                                                                 *)
(***************************************************************************)
BASE_CTYPES == <<"int", "long", "float", "double", "char">>

STYLE_KEYS == <<"kr", "allman", "gnu">>

STYLE_TABLE ==
    [s \in Range(STYLE_KEYS) |->
        CASE s = "kr"     -> [indent |-> 4, brace_same |-> TRUE]
          [] s = "allman" -> [indent |-> 4, brace_same |-> FALSE]
          [] s = "gnu"    -> [indent |-> 2, brace_same |-> TRUE]]

\* str.capitalize() on the identifiers of the model
Capitalize(n) == CASE n = "qwe" -> "Qwe" [] n = "rty" -> "Rty" [] OTHER -> n

\* every string a type can be before the pointer star is added
TypeBases == Range(BASE_CTYPES) \cup Names \cup LongNames \cup {Capitalize(n) : n \in Names} \cup {"void"}

\* ctype.endswith("*")
EndsWithStar(t) == \E b \in TypeBases : t = b \o "*"

\* the indexes a draw rng.choice(seq) reaches when seq starts with BASE_CTYPES
ChoiceIdx(n) == {i \in 1..n : i \in BasePicks \/ i > Len(BASE_CTYPES)}

\* the draws of one choose_ctype call: the index chosen and random() < POINTER_CHANCE
TypeDraws(extra) == [i : ChoiceIdx(Len(BASE_CTYPES) + Len(extra)), ptr : BOOLEAN]

choose_ctype(td, extra) ==
    LET base == (BASE_CTYPES \o extra)[td.i]
    IN  IF td.ptr /\ ~EndsWithStar(base) THEN base \o "*" ELSE base

\* random_value: the literal, with a fixed letter or number for the drawn one
random_value(ctype) ==
    IF EndsWithStar(ctype) THEN "NULL"
    ELSE IF ctype = "char" THEN "'a'"
    ELSE IF ctype \in {"int", "long"} THEN (IF ctype = "long" THEN "7L" ELSE "7")
    ELSE "7.00"

\* brace_line: newline count and brace placement of the header it returns
brace_line(st, header) ==
    IF STYLE_TABLE[st.style].brace_same
    THEN [nl |-> 1, brace |-> "same", header |-> header]
    ELSE [nl |-> 2, brace |-> "next", header |-> header]

\* the empty string a unit returns when it has nothing to contribute
Empty == [kind |-> "", nl |-> 0, brace |-> "none", data |-> <<>>]

Frag(kind, nl, brace, data) == [kind |-> kind, nl |-> nl, brace |-> brace, data |-> data]

\* what a unit hands back: the state as it left it and the snippet
Ret(st, snippet) == [state |-> st, snippet |-> snippet]

(***************************************************************************)
(* Generators.  gen_x(st, d, ord) is gen_x(state) run on state st when the *)
(* random source yields the draws d and list(state["typedefs"]),           *)
(* list(state["funcs"]) enumerate the sets in the orders ord.              *)
(***************************************************************************)
gen_comment(st, d, ord) == Ret(st, Frag("comment", 1, "none", <<>>))

hdrs == <<"<stdio.h>", "<stdlib.h>", "<string.h>", "<math.h>", "<stddef.h>">>

InHeaders(st, h) == h \in st.headers

\* the list available without the filter on state["headers"]
Available_unfiltered(st) == hdrs

\* [h for h in hdrs if h not in state["headers"]]
Available(st) == SelectSeq(hdrs, LAMBDA h : ~InHeaders(st, h))

\* the list rng.choice draws from, after the reset
IncludePool(st) == IF Available(st) = <<>> THEN hdrs ELSE Available(st)

gen_include(st, d, ord) ==
    LET available0 == Available(st)
        cleared    == available0 = <<>>
        headers1   == IF cleared THEN {} ELSE st.headers
        available  == IF cleared THEN hdrs ELSE available0
        hdr        == available[d.i]
    IN  Ret([st EXCEPT !.headers = headers1 \cup {hdr}],
            Frag("include", 1, "none", <<hdr>>))

\* gen_define_macro recording the macro among the type aliases
gen_define_macro_tracking(st, d, ord) ==
    Ret([st EXCEPT !.typedefs = @ \cup {"QWERTY"}], Frag("define_macro", 1, "none", <<>>))

gen_define_macro(st, d, ord) == Ret(st, Frag("define_macro", 1, "none", <<>>))

gen_define_macro_func(st, d, ord) == Ret(st, Frag("define_macro_f", 1, "none", <<>>))

\* gen_typedef keeping the last alias only
gen_typedef_replacing(st, d, ord) ==
    Ret([st EXCEPT !.typedefs = {d.name}], Frag("typedef", 1, "none", <<d.name>>))

gen_typedef(st, d, ord) ==
    LET alias == d.name
    IN  Ret([st EXCEPT !.typedefs = @ \cup {alias}],
            Frag("typedef", 1, "none", <<alias>>))

gen_enum(st, d, ord) ==
    LET name == Capitalize(d.name)
    IN  Ret([st EXCEPT !.typedefs = @ \cup {name}],
            Frag("enum", 1, "inline", <<name>>))

\* gen_union adding the name to state["typedefs"]
gen_union_aliasing(st, d, ord) ==
    Ret([st EXCEPT !.typedefs = @ \cup {Capitalize(d.name)}],
        Frag("union", 1 + (2 - 1) + 2, "same", <<Capitalize(d.name)>>))

\* "typedef union N {\n" + two fields joined by "\n" + "\n} N;\n"
gen_union(st, d, ord) ==
    LET name == Capitalize(d.name)
    IN  Ret([st EXCEPT !.structs = @ \cup {name}],
            Frag("union", 1 + (2 - 1) + 2, "same", <<name>>))

\* "typedef struct N {\n" + d.n member lines joined by "\n" + "\n} N;\n"
gen_struct(st, d, ord) ==
    LET name == Capitalize(d.name)
    IN  Ret([st EXCEPT !.structs = @ \cup {name}],
            Frag("struct", 1 + (d.n - 1) + 2, "same", <<name>>))

gen_var_decl(st, d, ord) ==
    LET ctype == choose_ctype(d.t, ord.typedefs)
        init  == IF ~EndsWithStar(ctype) /\ d.init
                 THEN random_value(BASE_CTYPES[d.lit]) ELSE ""
    IN  Ret(st, Frag("var_decl", 1, "none", <<ctype, init>>))

RECURSIVE Join(_)
\* ", ".join(params) as tokens: the items with a "," between neighbours
Join(ps) ==
    IF Len(ps) <= 1 THEN ps ELSE <<ps[1], ",">> \o Join(Tail(ps))

\* the pieces counted as the tokens of pstr, separators included
SplitCount_tokens(pstr) == Len(pstr)

\* len(pstr.split(","))
SplitCount(pstr) == Cardinality({i \in 1..Len(pstr) : pstr[i] = ","}) + 1

gen_func_decl(st, d, ord) ==
    LET ret        == choose_ctype(d.ret, ord.typedefs)
        name       == d.name
        params     == [i \in 1..Len(d.params) |->
                          choose_ctype(d.params[i], ord.typedefs) \o " p"]
        params_str == IF params # <<>> THEN Join(params) ELSE <<"void">>
        sig        == <<ret, name, params_str>>
    IN  Ret([st EXCEPT !.funcs = @ \cup {sig}],
            Frag("func_decl", 1, "none", sig))

\* gen_func_def without the test on state["funcs"]: it defines a fresh function
gen_func_def_unchecked(st, d, ord) ==
    LET sig == IF st.funcs = {} THEN <<"int", "qwerty", <<"void">>>> ELSE ord.funcs[d.fi]
        bl  == brace_line(st, sig)
    IN  Ret(st, Frag("func_def", bl.nl + 1 + 2, bl.brace, sig))

\* gen_func_def taking the signature it defines out of state["funcs"]
gen_func_def_consuming(st, d, ord) ==
    IF st.funcs = {} THEN Ret(st, Empty)
    ELSE LET bl == brace_line(st, ord.funcs[d.fi])
         IN  Ret([st EXCEPT !.funcs = @ \ {ord.funcs[d.fi]}],
                 Frag("func_def", bl.nl + 1 + 2, bl.brace, ord.funcs[d.fi]))

gen_func_def(st, d, ord) ==
    IF st.funcs = {} THEN Ret(st, Empty)
    ELSE LET sig  == ord.funcs[d.fi]
             bl   == brace_line(st, sig)
             \* one body line, then "}\n\n"
         IN  Ret(st, Frag("func_def", bl.nl + 1 + 2, bl.brace, sig))

\* header, d.n cases of three lines, "default:", "break;", "}"
gen_switch(st, d, ord) ==
    LET bl == brace_line(st, "switch")
    IN  Ret(st, Frag("switch", bl.nl + 3 * d.n + 3, bl.brace, <<>>))

gen_conditional(st, d, ord) ==
    LET b1 == brace_line(st, "if")
        b2 == brace_line(st, "else")
    IN  Ret(st, Frag("conditional", (b1.nl + 2) + (b2.nl + 2), b1.brace, <<>>))

gen_loop(st, d, ord) ==
    LET bl == brace_line(st, "for")
    IN  Ret(st, Frag("loop", bl.nl + 2, bl.brace, <<>>))

\* one statement of the body of main: a call of a declared function or the printf
MainStmt(st, b, ord) ==
    IF st.funcs # {} /\ b.call
    THEN LET sig   == ord.funcs[b.fi]
             fname == sig[2]
             pstr  == sig[3]
             args  == IF pstr # <<"void">> THEN [i \in 1..SplitCount(pstr) |-> "0"]
                      ELSE <<>>
         IN  [call |-> TRUE, fn |-> fname, args |-> args]
    ELSE [call |-> FALSE, fn |-> "printf", args |-> <<"Hello, world!">>]

\* gen_main without the main_written guard
gen_main_unguarded(st, d, ord) ==
    LET bl   == brace_line(st, "int main(void)")
        body == IF st.main_written THEN <<MainStmt(st, [call |-> FALSE, fi |-> 1], ord)>>
                ELSE [i \in 1..Len(d.body) |-> MainStmt(st, d.body[i], ord)]
    IN  Ret([st EXCEPT !.main_written = TRUE],
            Frag("main", bl.nl + Len(body) + 1 + 1, bl.brace, body))

\* gen_main clearing main_written when it finds it set
gen_main_toggling(st, d, ord) ==
    IF st.main_written THEN Ret([st EXCEPT !.main_written = FALSE], Empty)
    ELSE gen_main_unguarded(st, d, ord)

gen_main(st, d, ord) ==
    IF st.main_written THEN Ret(st, Empty)
    ELSE LET bl   == brace_line(st, "int main(void)")
             body == [i \in 1..Len(d.body) |-> MainStmt(st, d.body[i], ord)]
             \* header, the statements, "return 0;", "}"
         IN  Ret([st EXCEPT !.main_written = TRUE],
                 Frag("main", bl.nl + Len(body) + 1 + 1, bl.brace, body))

\* fn(state) for the generator function named fn
Invoke(fn, st, d, ord) ==
    CASE fn = "gen_comment"           -> gen_comment(st, d, ord)
      [] fn = "gen_include"           -> gen_include(st, d, ord)
      [] fn = "gen_define_macro"      -> gen_define_macro(st, d, ord)
      [] fn = "gen_define_macro_func" -> gen_define_macro_func(st, d, ord)
      [] fn = "gen_typedef"           -> gen_typedef(st, d, ord)
      [] fn = "gen_enum"              -> gen_enum(st, d, ord)
      [] fn = "gen_union"             -> gen_union(st, d, ord)
      [] fn = "gen_struct"            -> gen_struct(st, d, ord)
      [] fn = "gen_var_decl"          -> gen_var_decl(st, d, ord)
      [] fn = "gen_func_decl"         -> gen_func_decl(st, d, ord)
      [] fn = "gen_func_def"          -> gen_func_def(st, d, ord)
      [] fn = "gen_switch"            -> gen_switch(st, d, ord)
      [] fn = "gen_conditional"       -> gen_conditional(st, d, ord)
      [] fn = "gen_loop"              -> gen_loop(st, d, ord)
      [] fn = "gen_main"              -> gen_main(st, d, ord)

(***************************************************************************)
(* The random source: what each generator can draw in a given state        *)
(***************************************************************************)
NoDraw == {[none |-> TRUE]}

\* sequences over S of length lo..hi
SeqsOf(S, lo, hi) == UNION {[1..n -> S] : n \in lo..hi}

Idx(n) == IF n = 0 THEN {1} ELSE 1..n

\* one statement of main: random() < 0.5 (read only when funcs is non-empty) and
\* the index rng.choice picks in list(state["funcs"])
StmtDraws(st) ==
    IF st.funcs = {} THEN {[call |-> FALSE, fi |-> 1]}
    ELSE {[call |-> FALSE, fi |-> 1]} \cup [call : {TRUE}, fi : Idx(Cardinality(st.funcs))]

Draws(fn, st) ==
    LET tds == TypeDraws([i \in 1..Cardinality(st.typedefs) |-> "t"])
    IN  CASE fn = "gen_include"   -> [i : 1..Len(IncludePool(st))]
          [] fn = "gen_typedef"   -> [name : Names]
          [] fn = "gen_enum"      -> [name : Names]
          [] fn = "gen_union"     -> [name : Names]
          [] fn = "gen_struct"    -> [name : Names, n : 1..3]
          [] fn = "gen_var_decl"  -> [t : tds, init : BOOLEAN, lit : 1..Len(BASE_CTYPES)]
          [] fn = "gen_func_decl" -> [ret : tds, name : LongNames, params : SeqsOf(tds, 0, 2)]
          [] fn = "gen_func_def"  -> [fi : Idx(Cardinality(st.funcs))]
          [] fn = "gen_switch"    -> [n : 2..4]
          [] fn = "gen_main"      -> IF st.main_written THEN NoDraw
                                     ELSE [body : SeqsOf(StmtDraws(st), 1, 3)]
          [] OTHER                -> NoDraw

\* the orders list(state["typedefs"]) and list(state["funcs"]) can have when fn reads them
Orders(fn, st) ==
    CASE fn \in {"gen_var_decl", "gen_func_decl"} ->
              [typedefs : ListsOf(st.typedefs), funcs : {<<>>}]
      [] fn \in {"gen_func_def", "gen_main"} ->
              [typedefs : {<<>>}, funcs : ListsOf(st.funcs)]
      [] OTHER -> [typedefs : {<<>>}, funcs : {<<>>}]

(***************************************************************************)
(* Configurations handed to build_c                                        *)
(***************************************************************************)
Styles == {"auto"} \cup Range(STYLE_KEYS)

IncludeOnly   == << <<"include", 1>> >>
FuncsOnly     == << <<"func_decl", 1>>, <<"func_def", 1>> >>
TypesAndVars  == << <<"typedef", 1>>, <<"enum", 1>>, <<"var_decl", 2>> >>
DefOnly       == << <<"func_def", 1>> >>
MainOnly      == << <<"main", 1>> >>
MainAndMacro  == << <<"main", 3>>, <<"define_macro", 1>>, <<"func_decl", 0>> >>
UnknownKey    == << <<"comment", 1>>, <<"bogus", 1>> >>
NegativeValue == << <<"comment", 2>>, <<"include", -1>> >>
ZeroTotal     == << <<"comment", 0>>, <<"loop", 0>> >>
NoWeights     == << >>
CommentAndLoop == << <<"comment", 1>>, <<"loop", 1>> >>
TypesAndFuncs  == << <<"typedef", 1>>, <<"enum", 1>>, <<"func_decl", 1>> >>

\* a cfg.style that is neither "auto" nor a key of STYLE_TABLE
OtherStyle == "bsd"

CConfig(ws, locs, styles) == [loc : locs, seed : {7}, style : styles, weights : ws]

Configs ==
    CConfig({DefaultWeights}, 0..SmallLoc, Styles)
        \cup CConfig({IncludeOnly, DefOnly}, 0..LongLoc, {"gnu"})
        \cup CConfig({MainOnly, MainAndMacro}, 0..LongLoc, {"kr", "allman"})
        \cup CConfig({TypesAndVars}, 0..MaxLoc, {"kr"})
        \cup CConfig({FuncsOnly}, 0..MaxLoc, {"allman"})
        \cup CConfig({UnknownKey, NegativeValue, ZeroTotal, NoWeights}, 0..MaxLoc, {"auto"})
        \cup CConfig({CommentAndLoop}, 0..MaxLoc, {OtherStyle})
        \* a target that two one-line fragments after the preamble reach
        \cup CConfig({TypesAndFuncs}, {4}, {"gnu"})

\* kinds, weights = zip(*cfg.weights.items())
kinds(ws) == [i \in 1..Len(ws) |-> ws[i][1]]
weights(ws) == [i \in 1..Len(ws) |-> ws[i][2]]

RegisteredKeys(ws) == \A i \in 1..Len(ws) : ws[i][1] \in DOMAIN ModuleRegistry
NonNegative(ws) == \A i \in 1..Len(ws) : ws[i][2] >= 0

(***************************************************************************)
(* random.choices(kinds, weights=weights)                                  *)
(***************************************************************************)
RECURSIVE SumTo(_, _)
\* w[0] + ... + w[i - 1]
SumTo(w, i) == IF i = 0 THEN 0 ELSE SumTo(w, i - 1) + w[i]

\* list(itertools.accumulate(weights))
accumulate(w) == [i \in 1..Len(w) |-> SumTo(w, i)]

\* cum_weights[-1]
Total(ws) == accumulate(weights(ws))[Len(ws)]

RECURSIVE bisect(_, _, _, _)
\* bisect.bisect_right(a, x, lo, hi), indexes counted from 0 as in Python
bisect(a, x, lo, hi) ==
    IF lo < hi
    THEN LET mid == (lo + hi) \div 2
         IN  IF x < a[mid + 1] THEN bisect(a, x, lo, mid) ELSE bisect(a, x, mid + 1, hi)
    ELSE lo

\* population[bisect(cum_weights, random() * total, 0, n - 1)], x the integer part
\* of random() * total (the weights are integers, so bisect sees x alone)
choices(ws, x) == kinds(ws)[bisect(accumulate(weights(ws)), x, 0, Len(ws) - 1) + 1]

\* choices raises ValueError('Total of weights must be greater than zero')
ChoicesRaises(ws) == Total(ws) <= 0

\* the kinds rng.choices can return
Drawable(ws) == IF ChoicesRaises(ws) THEN {} ELSE {choices(ws, x) : x \in 0..Total(ws) - 1}

(***************************************************************************)
(* build_c                                                                 *)
(***************************************************************************)
NoState == [style |-> "", typedefs |-> {}, structs |-> {}, funcs |-> {},
            headers |-> {}, main_written |-> FALSE]

NewState(style) == [style |-> style, typedefs |-> {}, structs |-> {}, funcs |-> {},
                    headers |-> {}, main_written |-> FALSE]

\* "/* Auto-generated C code */\n\n"
Preamble == Frag("preamble", 2, "none", <<>>)

NoCall == [kind |-> "", snippet |-> Empty, pre |-> NoState, forced |-> FALSE]

\* the loop test off by one
LoopCond_short(l, c) == l + 1 < c.loc

\* the loop test as lines <= cfg.loc
LoopCond_long(l, c) == l <= c.loc

\* while lines < cfg.loc
LoopCond(l, c) == l < c.loc

\* the test "if snippet:" taken for every snippet
Truthy_always(snippet) == TRUE

\* if snippet:
Truthy(snippet) == snippet # Empty

Count(n) == IF n < 2 THEN n + 1 ELSE 2

\* the twin process after the same call: it reads the same random sequence, but
\* its lists of the sets have orders of their own; where the draw d does not fit
\* its state (a list of another length) the draw is any it can make
TwinAfter(fn, d, forced) ==
    IF ~twin.on THEN {twin}
    ELSE LET ds == IF d \in Draws(fn, twin.state) THEN {d} ELSE Draws(fn, twin.state)
         IN  { LET r == Invoke(fn, twin.state, x[1], x[2])
                   app == forced \/ (Truthy(r.snippet) /\ ~forced)
               IN  [on    |-> TRUE,
                    state |-> r.state,
                    parts |-> IF app THEN Append(twin.parts, r.snippet) ELSE twin.parts,
                    lines |-> IF app /\ ~forced THEN twin.lines + r.snippet.nl
                              ELSE twin.lines]
               : x \in ds \X Orders(fn, twin.state) }

\* what one call of fn can return in this process, over the draws of the rng and the
\* orders of the sets it lists, each with what the same draws give the twin
Outcomes(fn, forced) ==
    UNION { {[r |-> Invoke(fn, state, x[1], x[2]), twin |-> t] :
                 t \in TwinAfter(fn, x[1], forced)}
            : x \in Draws(fn, state) \X Orders(fn, state) }

\* fn(st) reads STYLE_TABLE[st["style"]], itself or in brace_line
ReadsStyle(fn, st) ==
    \/ fn \in {"gen_switch", "gen_conditional", "gen_loop"}
    \/ fn = "gen_func_def" /\ st.funcs # {}
    \/ fn = "gen_main" /\ ~st.main_written

\* fn(st) raises KeyError on the STYLE_TABLE lookup
Raises(fn, st) == ReadsStyle(fn, st) /\ st.style \notin DOMAIN STYLE_TABLE

\* lines 264-278: the rng, the style, the state, the preamble, the zip
Build ==
    /\ pc = "start"
    /\ \E style \in (IF cfg.style = "auto" THEN Range(STYLE_KEYS) ELSE {cfg.style}) :
          /\ state' = NewState(style)
          /\ twin' = IF twin.on
                     THEN [on |-> TRUE, state |-> NewState(style),
                           parts |-> <<Preamble>>, lines |-> Preamble.nl]
                     ELSE twin
    /\ parts' = <<Preamble>>
    /\ lines' = Preamble.nl
    /\ IF cfg.weights = <<>>
       THEN pc' = "failed" /\ error' = "ValueError"
       ELSE pc' = "loop" /\ error' = ""
    /\ UNCHANGED <<task, registry, reg_call, cfg, last, tick, main_calls>>

\* one iteration of the loop in which rng.choices returns kind
Iterate(kind) ==
    /\ pc = "loop"
    /\ LoopCond(lines, cfg)
    /\ kind \in Drawable(cfg.weights)
    /\ kind \in DOMAIN registry
    /\ ~Raises(registry[kind], state)
    /\ \E o \in Outcomes(registry[kind], FALSE) :
          /\ state' = o.r.state
          /\ parts' = IF Truthy(o.r.snippet) THEN Append(parts, o.r.snippet) ELSE parts
          /\ lines' = IF Truthy(o.r.snippet) THEN lines + o.r.snippet.nl ELSE lines
          /\ last' = [kind |-> kind, snippet |-> o.r.snippet, pre |-> state,
                      forced |-> FALSE]
          /\ twin' = o.twin
    /\ tick' = 1 - tick
    /\ main_calls' = IF registry[kind] = "gen_main" THEN Count(main_calls) ELSE main_calls
    /\ UNCHANGED <<task, registry, reg_call, cfg, pc, error>>

DrawComment     == pc = "loop" /\ Iterate("comment")
DrawInclude     == pc = "loop" /\ Iterate("include")
DrawDefineMacro == pc = "loop" /\ Iterate("define_macro")
DrawDefineMacroF == pc = "loop" /\ Iterate("define_macro_f")
DrawTypedef     == pc = "loop" /\ Iterate("typedef")
DrawEnum        == pc = "loop" /\ Iterate("enum")
DrawUnion       == pc = "loop" /\ Iterate("union")
DrawStruct      == pc = "loop" /\ Iterate("struct")
DrawVarDecl     == pc = "loop" /\ Iterate("var_decl")
DrawFuncDecl    == pc = "loop" /\ Iterate("func_decl")
DrawFuncDef     == pc = "loop" /\ Iterate("func_def")
DrawSwitch      == pc = "loop" /\ Iterate("switch")
DrawConditional == pc = "loop" /\ Iterate("conditional")
DrawLoop        == pc = "loop" /\ Iterate("loop")
DrawMain        == pc = "loop" /\ Iterate("main")

\* rng.choices returns a key _REGISTRY does not hold: KeyError
DrawUnknown ==
    /\ pc = "loop"
    /\ LoopCond(lines, cfg)
    /\ \E kind \in Drawable(cfg.weights) : kind \notin DOMAIN registry
    /\ pc' = "failed"
    /\ error' = "KeyError"
    /\ tick' = 1 - tick
    /\ UNCHANGED <<task, registry, reg_call, cfg, state, parts, lines, last, main_calls, twin>>

\* the unit drawn raises KeyError on the STYLE_TABLE lookup and the exception
\* leaves build_c; state and parts are locals of build_c and are not read again
\* (gen_main has set main_written on them before its lookup)
UnitFails ==
    /\ pc = "loop"
    /\ LoopCond(lines, cfg)
    /\ \E kind \in Drawable(cfg.weights) \cap DOMAIN registry :
          Raises(registry[kind], state)
    /\ pc' = "failed"
    /\ error' = "KeyError"
    /\ tick' = 1 - tick
    /\ UNCHANGED <<task, registry, reg_call, cfg, state, parts, lines, last, main_calls, twin>>

\* rng.choices raises on a total weight that is not positive
ChoicesFails ==
    /\ pc = "loop"
    /\ LoopCond(lines, cfg)
    /\ ChoicesRaises(cfg.weights)
    /\ pc' = "failed"
    /\ error' = "ValueError"
    /\ UNCHANGED <<task, registry, reg_call, cfg, state, parts, lines, last, tick, main_calls,
                   twin>>

\* lines 286-289: the loop is over; main is forced when it was not written
Finish ==
    /\ pc = "loop"
    /\ ~LoopCond(lines, cfg)
    /\ ~Raises("gen_main", state)
    /\ IF ~state.main_written
       THEN \E o \in Outcomes("gen_main", TRUE) :
               /\ state' = o.r.state
               /\ parts' = Append(parts, o.r.snippet)
               /\ last' = [kind |-> "main", snippet |-> o.r.snippet, pre |-> state,
                           forced |-> TRUE]
               /\ main_calls' = Count(main_calls)
               /\ twin' = o.twin
       ELSE UNCHANGED <<state, parts, last, main_calls, twin>>
    /\ pc' = "done"
    /\ UNCHANGED <<task, registry, reg_call, cfg, error, lines, tick>>

\* lines 286-287: the forced gen_main raises KeyError on the STYLE_TABLE lookup
MainFails ==
    /\ pc = "loop"
    /\ ~LoopCond(lines, cfg)
    /\ Raises("gen_main", state)
    /\ pc' = "failed"
    /\ error' = "KeyError"
    /\ UNCHANGED <<task, registry, reg_call, cfg, state, parts, lines, last, tick, main_calls,
                   twin>>

\* "".join(parts), as the fragments it is made of
Returned == parts

(***************************************************************************)
(* Specifications                                                          *)
(***************************************************************************)
NoTwin == [on |-> FALSE, state |-> NoState, parts |-> <<>>, lines |-> 0]

\* no task is being generated
NoTask == [pc |-> "off", n |-> 0, k |-> 0, drawn |-> {}, arr |-> <<>>, key |-> 0,
           idx |-> 0, a |-> <<>>, lo |-> 0, hi |-> 0, ret |-> 0]

InitRun ==
    /\ registry = ModuleRegistry
    /\ reg_call = [kind |-> "", fn |-> "", raised |-> FALSE, before |-> ModuleRegistry]
    /\ cfg \in Configs
    /\ pc = "start"
    /\ error = ""
    /\ state = NoState
    /\ parts = <<>>
    /\ lines = 0
    /\ last = NoCall
    /\ tick = 0
    /\ main_calls = 0
    /\ task = NoTask

Init == InitRun /\ twin = NoTwin

Next ==
    \/ Build
    \/ DrawComment
    \/ DrawInclude
    \/ DrawDefineMacro
    \/ DrawDefineMacroF
    \/ DrawTypedef
    \/ DrawEnum
    \/ DrawUnion
    \/ DrawStruct
    \/ DrawVarDecl
    \/ DrawFuncDecl
    \/ DrawFuncDef
    \/ DrawSwitch
    \/ DrawConditional
    \/ DrawLoop
    \/ DrawMain
    \/ DrawUnknown
    \/ UnitFails
    \/ ChoicesFails
    \/ Finish
    \/ MainFails

Spec == Init /\ [][Next]_vars

\* the twin process runs beside the first one
InitTwin == InitRun /\ twin = [NoTwin EXCEPT !.on = TRUE]

SpecTwin == InitTwin /\ [][Next]_vars

\* an iteration that adds lines
Advance == Next /\ lines' > lines

\* build_c runs on: a step that can be taken is taken, and a random draw that keeps
\* being possible (a unit that adds lines has positive weight) is made in the end
FairSpec == Init /\ [][Next]_vars /\ WF_vars(Next) /\ SF_vars(Advance)

(***************************************************************************)
(* Registration: the decorators of the module and of its clients, in any   *)
(* order, from the empty registry                                          *)
(***************************************************************************)
RegKinds == {KINDS[i] : i \in 1..MaxReg}
RegFns == {GENS[1], GENS[2]}
EmptyRegistry == [k \in {} |-> ""]

InitReg ==
    /\ registry = EmptyRegistry
    /\ reg_call = [kind |-> "", fn |-> "", raised |-> FALSE, before |-> EmptyRegistry]
    /\ cfg = [loc |-> 0, seed |-> 7, style |-> "auto", weights |-> DefaultWeights]
    /\ pc = "import"
    /\ error = ""
    /\ state = NoState
    /\ parts = <<>>
    /\ lines = 0
    /\ last = NoCall
    /\ tick = 0
    /\ main_calls = 0
    /\ twin = NoTwin
    /\ task = NoTask

\* @register(kind) applied to fn
Register ==
    /\ pc = "import"
    /\ \E kind \in RegKinds, fn \in RegFns :
          LET r == register(registry, kind, fn)
          IN  /\ registry' = r.registry
              /\ reg_call' = [kind |-> kind, fn |-> fn, raised |-> r.raised,
                              before |-> registry]
    /\ UNCHANGED <<task, cfg, pc, error, state, parts, lines, last, tick, main_calls,
                   twin>>

NextReg == Register

SpecReg == InitReg /\ [][NextReg]_vars

(***************************************************************************)
(* task_binary_search of c_task_factory_advanced.py, and the run of the C  *)
(* program it emits: main initialises int a[n] from the emitted list (the  *)
(* elements without an initializer are 0) and calls bin_search(a, n, key)  *)
(***************************************************************************)
\* rng.randint(6, 10): the smallest n, and the largest n of the model
SearchMinN == 6
SearchMaxN == 7
\* the largest value of the model for rng.randint(0, 50)
MaxVal == 6

Least(S) == CHOOSE m \in S : \A x \in S : m <= x

RECURSIVE sorted(_)
\* sorted(S) for a set S of integers
sorted(S) == IF S = {} THEN <<>> ELSE <<Least(S)>> \o sorted(S \ {Least(S)})

\* arr.index(key), counted from 0
index(arr, key) == Least({i \in 1..Len(arr) : arr[i] = key}) - 1

\* int a[n] = { init }: the initializers, then zeros up to n elements
Emitted(arr, n) == [i \in 1..n |-> IF i <= Len(arr) THEN arr[i] ELSE 0]

InitSearch ==
    /\ registry = ModuleRegistry
    /\ reg_call = [kind |-> "", fn |-> "", raised |-> FALSE, before |-> ModuleRegistry]
    /\ cfg = [loc |-> 0, seed |-> 7, style |-> "auto", weights |-> DefaultWeights]
    /\ pc = "task"
    /\ error = ""
    /\ state = NoState
    /\ parts = <<>>
    /\ lines = 0
    /\ last = NoCall
    /\ tick = 0
    /\ main_calls = 0
    /\ twin = NoTwin
    /\ \E n \in SearchMinN..SearchMaxN : task = [NoTask EXCEPT !.pc = "draw", !.n = n]

\* one rng.randint(0, 50) of the set comprehension
TaskDraw ==
    /\ task.pc = "draw"
    /\ task.k < task.n
    /\ \E v \in 0..MaxVal :
          task' = [task EXCEPT !.k = @ + 1, !.drawn = @ \cup {v}]
    /\ UNCHANGED <<registry, reg_call, cfg, pc, error, state, parts, lines, last, tick,
                   main_calls, twin>>

\* lines 128-148: arr, key and idx are fixed, the program is emitted and its main
\* enters bin_search(a, n, key)
TaskEmit ==
    /\ task.pc = "draw"
    /\ task.k = task.n
    /\ LET arr == sorted(task.drawn)
       IN  \E j \in 1..Len(arr) :
              task' = [task EXCEPT !.pc = "search", !.arr = arr, !.key = arr[j],
                                   !.idx = index(arr, arr[j]),
                                   !.a = Emitted(arr, task.n),
                                   !.lo = 0, !.hi = task.n - 1]
    /\ UNCHANGED <<registry, reg_call, cfg, pc, error, state, parts, lines, last, tick,
                   main_calls, twin>>

\* one iteration of while (lo <= hi)
SearchStep ==
    /\ task.pc = "search"
    /\ task.lo <= task.hi
    /\ LET mid == (task.lo + task.hi) \div 2
       IN  task' = IF task.a[mid + 1] = task.key
                   THEN [task EXCEPT !.pc = "returned", !.ret = mid]
                   ELSE IF task.a[mid + 1] < task.key
                        THEN [task EXCEPT !.lo = mid + 1]
                        ELSE [task EXCEPT !.hi = mid - 1]
    /\ UNCHANGED <<registry, reg_call, cfg, pc, error, state, parts, lines, last, tick,
                   main_calls, twin>>

\* the loop is over: return -1
SearchMiss ==
    /\ task.pc = "search"
    /\ task.lo > task.hi
    /\ task' = [task EXCEPT !.pc = "returned", !.ret = -1]
    /\ UNCHANGED <<registry, reg_call, cfg, pc, error, state, parts, lines, last, tick,
                   main_calls, twin>>

NextSearch == TaskDraw \/ TaskEmit \/ SearchStep \/ SearchMiss

SpecSearch == InitSearch /\ [][NextSearch]_vars

(***************************************************************************)
(* Properties                                                              *)
(***************************************************************************)
Max(S) == CHOOSE m \in S : \A x \in S : x <= m

\* the largest newline count of a fragment a registered unit can return
MaxUnitLines ==
    Max({Invoke(fn, NewState(s), d, [typedefs |-> <<>>, funcs |-> <<>>]).snippet.nl :
            <<fn, s, d>> \in {x \in Range(GENS) \X Range(STYLE_KEYS) \X
                                 UNION {Draws(g, NewState("kr")) : g \in Range(GENS)} :
                              x[3] \in Draws(x[1], NewState(x[2]))}})

MainFragments(ps) == {i \in 1..Len(ps) : ps[i].kind = "main"}

\* C1: when build_c returns, the returned text has at least cfg.loc lines
C1_NeverUndershoots == pc = "done" => SumNl(Returned) >= cfg.loc

\* the loop ran up to a target above the preamble and build_c returned
C1_Witness == pc = "done" /\ cfg.loc > Preamble.nl /\ Len(parts) > 2

C3_OneMain ==
    /\ Cardinality(MainFragments(parts)) <= 1
    /\ pc = "done" => Cardinality(MainFragments(Returned)) = 1

\* main was drawn in the loop more than once and build_c returned
C3_Witness == pc = "done" /\ main_calls = 2 /\ ~last.forced

\* C4: two processes given the same configuration and seed return the same text
C4_Deterministic == (twin.on /\ pc = "done") => twin.parts = Returned

\* C5: build_c leaves the loop
C5_Terminates == <>(pc \in {"done", "failed"})

\* C6: a function definition repeats the signature of a declaration that comes
\* before it in parts, and main calls only functions in state.funcs as it was
\* when gen_main ran
C6_DeclaredBeforeUse ==
    /\ \A j \in 1..Len(parts) :
          parts[j].kind = "func_def" =>
              \E i \in 1..j - 1 :
                  parts[i].kind = "func_decl" /\ parts[i].data = parts[j].data
    /\ (last.kind = "main" /\ Truthy(last.snippet)) =>
          \A k \in 1..Len(last.snippet.data) :
              last.snippet.data[k].call =>
                  \E sig \in last.pre.funcs : sig[2] = last.snippet.data[k].fn

\* parts holds a definition, and main has just been written with a call in it
C6_Witness ==
    /\ \E j \in 1..Len(parts) : parts[j].kind = "func_def"
    /\ last.kind = "main" /\ Truthy(last.snippet)
    /\ \E k \in 1..Len(last.snippet.data) : last.snippet.data[k].call

\* the headers of the include fragments of parts, in order
Included(ps) ==
    LET inc == SelectSeq(ps, LAMBDA f : f.kind = "include")
    IN  [i \in 1..Len(inc) |-> inc[i].data[1]]

\* C7: gen_include picks a header that state.headers does not hold, unless it held
\* the whole catalog (and is then cleared); each complete block of five emitted
\* headers is the catalog; state.headers ends up holding the header emitted
C7_NoRepeatUntilExhausted ==
    /\ last.kind = "include" =>
          LET hdr == last.snippet.data[1]
              pre == last.pre.headers
          IN  /\ hdr \in pre => pre = Range(hdrs)
              /\ state.headers = (IF pre = Range(hdrs) THEN {} ELSE pre) \cup {hdr}
              /\ state.headers # {} /\ state.headers \subseteq Range(hdrs)
              /\ hdr \in state.headers
    /\ LET H == Included(parts)
       IN  \A b \in 1..(Len(H) \div Len(hdrs)) :
              {H[i] : i \in (b - 1) * Len(hdrs) + 1..b * Len(hdrs)} = Range(hdrs)

\* the catalog was emitted once over and a header was emitted again
C7_Witness ==
    /\ Len(Included(parts)) > Len(hdrs)
    /\ last.kind = "include" /\ last.pre.headers = Range(hdrs)

\* C8: with a weight key that is no registered unit, build_c ends by failing, with
\* no state built, no unit invoked and nothing returned
C8_UnknownKeyRejected ==
    (~RegisteredKeys(cfg.weights) /\ pc \in {"done", "failed"}) =>
        (pc = "failed" /\ state = NoState /\ last = NoCall)

\* C9: a weight mapping with a negative value is rejected before generation
\* starts: the loop of build_c draws and invokes no unit under it
C9_NegativeWeightRejected ==
    ~NonNegative(cfg.weights) => (last.kind = "" \/ last.forced)

\* C10: register on a registered name raises and leaves the registry as it was;
\* on a new name it adds that one entry and leaves the others as they were
C10_WriteOnce ==
    reg_call.kind # "" =>
        IF reg_call.kind \in DOMAIN reg_call.before
        THEN reg_call.raised /\ registry = reg_call.before
        ELSE /\ ~reg_call.raised
             /\ DOMAIN registry = DOMAIN reg_call.before \cup {reg_call.kind}
             /\ registry[reg_call.kind] = reg_call.fn
             /\ \A k \in DOMAIN reg_call.before : registry[k] = reg_call.before[k]

\* a second registration under a name, with another function, has just raised
C10_Witness ==
    /\ reg_call.raised
    /\ registry[reg_call.kind] # reg_call.fn

\* C11: no step of a run removes an element of state.typedefs, state.structs or
\* state.funcs; state.headers loses elements only in a gen_include call made when
\* it held the whole catalog
C11_AppendOnly ==
    [][ /\ state.typedefs \subseteq state'.typedefs
        /\ state.structs \subseteq state'.structs
        /\ state.funcs \subseteq state'.funcs
        /\ ~(state.headers \subseteq state'.headers) =>
               /\ last'.kind = "include" /\ last'.pre = state
               /\ state.headers = Range(hdrs)
               /\ state'.headers = {last'.snippet.data[1]} ]_vars

\* gen_include has just cleared state.headers and put one header back
C11_Witness ==
    /\ last.kind = "include"
    /\ Cardinality(state.headers) < Cardinality(last.pre.headers)

\* where the STYLE_TABLE entry of a style puts the opening brace of a block
Placement(style) == IF STYLE_TABLE[style].brace_same THEN "same" ELSE "next"

\* C12: state.style is the style chosen at the start of build_c (cfg.style unless
\* that is "auto"), no unit changes it, and every fragment of parts that opens a
\* block has its brace where the STYLE_TABLE entry of state.style puts it
C12_StyleConsistent ==
    pc \in {"loop", "done"} =>
        /\ cfg.style # "auto" => state.style = cfg.style
        /\ last.kind # "" => state.style = last.pre.style
        /\ \A i \in 1..Len(parts) :
              parts[i].brace \in {"same", "next"} =>
                  parts[i].brace = Placement(state.style)

\* C13: when the bin_search call of the emitted program returns, it returns idx,
\* so the assertion of the emitted main holds
C13_SelfVerifying == task.pc = "returned" => task.ret = task.idx

\* C14: when build_c returns, the last fragment of the returned text is main
C14_MainLast == pc = "done" => Returned[Len(Returned)].kind = "main"

\* the fragments of kind in ps
Of(kind, ps) == {i \in 1..Len(ps) : ps[i].kind = kind}

\* C15: a run whose weights are on func_decl and func_def only, with a target above
\* the preamble, returns a text with a function declaration and a function
\* definition in it
C15_DeclAndDef ==
    (pc = "done" /\ cfg.weights = FuncsOnly /\ cfg.loc > Preamble.nl) =>
        (Of("func_decl", Returned) # {} /\ Of("func_def", Returned) # {})

\* C16: lines is the newline count of the preamble when the loop is entered and
\* the newline count of parts at every loop test; an iteration never decreases
\* lines, appends nothing and leaves lines alone when its unit returns the empty
\* fragment, and appends the fragment and adds its newline count otherwise
C16_LoopAccounting ==
    /\ [](pc = "loop" => lines = SumNl(parts))
    /\ [][ /\ (pc = "start" /\ pc' = "loop") =>
                  (parts' = <<Preamble>> /\ lines' = Preamble.nl)
           /\ (pc = "loop" /\ pc' = "loop") =>
                  /\ lines' >= lines
                  /\ last'.snippet = Empty => (parts' = parts /\ lines' = lines)
                  /\ last'.snippet # Empty =>
                         /\ parts' = Append(parts, last'.snippet)
                         /\ lines' = lines + last'.snippet.nl ]_vars

\* an iteration after the first fragment has just got the empty fragment from its
\* unit
C16_Witness ==
    /\ pc = "loop"
    /\ last.kind # "" /\ last.snippet = Empty
    /\ Len(parts) > 1 /\ lines > Preamble.nl

\* C17: main_written is never cleared and is set by a gen_main call only; the
\* gen_main call that finds it clear sets it and returns the main fragment; a
\* gen_main call that finds it set has no draw to make, returns the empty
\* fragment and leaves the state as it was
C17_MainIdempotent ==
    /\ [][ /\ state.main_written => state'.main_written
           /\ (~state.main_written /\ state'.main_written) =>
                  (last'.kind = "main" /\ last'.pre = state) ]_vars
    /\ [](last.kind = "main" =>
            IF last.pre.main_written
            THEN /\ last.snippet = Empty
                 /\ state = last.pre
                 /\ Draws("gen_main", last.pre) = NoDraw
            ELSE /\ last.snippet.kind = "main"
                 /\ state = [last.pre EXCEPT !.main_written = TRUE])

\* gen_main has just been called again after it wrote main
C17_Witness ==
    /\ last.kind = "main" /\ last.pre.main_written
    /\ main_calls = 2
    /\ Of("main", parts) # {}

\* C18: a gen_func_def call made while state.funcs is empty raises nothing, returns
\* the empty fragment and leaves the state as it was, with no draw to make; made
\* while state.funcs holds a signature it returns a definition of one of them and
\* leaves the state, state.funcs included, as it was
C18_FuncDefDegrades ==
    last.kind = "func_def" =>
        /\ error = ""
        /\ state = last.pre
        /\ IF last.pre.funcs = {}
           THEN /\ last.snippet = Empty
                /\ Cardinality(Draws("gen_func_def", last.pre)) = 1
           ELSE /\ last.snippet.kind = "func_def"
                /\ last.snippet.nl > 0
                /\ last.snippet.data \in last.pre.funcs

\* gen_func_def has just been called with no signature declared, and the loop
\* goes on
C18_Witness ==
    /\ last.kind = "func_def" /\ last.pre.funcs = {}
    /\ pc = "loop" /\ error = ""
    /\ Drawable(cfg.weights) # {"func_def"}

\* the number of parameters gen_func_decl put in params_str
ParamCount(pstr) == Cardinality({i \in 1..Len(pstr) : pstr[i] \notin {",", "void"}})

\* the call gen_main emits when rng.choice picks sig
CallOf(st, sig) ==
    MainStmt(st, [call |-> TRUE, fi |-> 1], [typedefs |-> <<>>, funcs |-> <<sig>>])

\* C19: for every signature stored when gen_main runs, the call gen_main emits to
\* it names its function and passes one "0" per parameter of its params_str, none
\* for "void"; and every call in the body of main is the call to a stored signature
C19_ArgsMatchParams ==
    (last.kind = "main" /\ last.snippet # Empty) =>
        /\ \A sig \in last.pre.funcs :
              /\ CallOf(last.pre, sig).call
              /\ CallOf(last.pre, sig).fn = sig[2]
              /\ Len(CallOf(last.pre, sig).args) = ParamCount(sig[3])
              /\ Range(CallOf(last.pre, sig).args) \subseteq {"0"}
        /\ \A k \in 1..Len(last.snippet.data) :
              last.snippet.data[k].call =>
                  \E sig \in last.pre.funcs : last.snippet.data[k] = CallOf(last.pre, sig)

\* main has just been written with a call of two arguments and a call of none,
\* and a stored signature has a pointer parameter
C19_Witness ==
    /\ last.kind = "main" /\ last.snippet # Empty
    /\ \E k \in 1..Len(last.snippet.data) :
          last.snippet.data[k].call /\ Len(last.snippet.data[k].args) = 2
    /\ \E k \in 1..Len(last.snippet.data) :
          last.snippet.data[k].call /\ Len(last.snippet.data[k].args) = 0
    /\ \E sig \in last.pre.funcs : \E i \in 1..Len(sig[3]) : sig[3][i] = "int* p"

\* C20: a var_decl fragment with an initializer has the literal random_value gives
\* for its declared type when that is a base type, and NULL and nothing else when
\* it is a pointer
C20_InitMatchesType ==
    \A i \in Of("var_decl", parts) :
        LET ctype == parts[i].data[1]
            init  == parts[i].data[2]
        IN  init # "" =>
               /\ ctype \in Range(BASE_CTYPES) => init = random_value(ctype)
               /\ EndsWithStar(ctype) => init = "NULL"

\* the units that only write text
Textual == {"comment", "define_macro", "define_macro_f", "var_decl", "switch",
            "conditional", "loop"}

\* C21: a call of comment, define_macro, define_macro_f, var_decl, switch,
\* conditional or loop that returns leaves every field of the state as it was and
\* returns a fragment of its own kind with at least one line
C21_TextualFrame ==
    last.kind \in Textual =>
        /\ state = last.pre
        /\ last.snippet # Empty
        /\ last.snippet.kind = last.kind
        /\ last.snippet.nl >= 1

\* a textual unit has just run on a state that earlier units had written to
C21_Witness ==
    /\ last.kind \in Textual
    /\ last.pre # NewState(last.pre.style)
    /\ Len(parts) > 2

\* C22: once build_c has set state.style it is a key of STYLE_TABLE, whatever
\* cfg.style is, and build_c never fails with the KeyError of a STYLE_TABLE lookup
\* (every weight key being a registered unit, a KeyError can be no other)
C22_StyleInTable ==
    pc \in {"loop", "done", "failed"} =>
        /\ state.style \in Range(STYLE_KEYS)
        /\ (error = "KeyError" /\ RegisteredKeys(cfg.weights)) => pc # "failed"

\* the names the typedef and enum fragments before ps[j] introduce
Introduced(ps, j) ==
    {ps[i].data[1] : i \in {i \in 1..j - 1 : ps[i].kind \in {"typedef", "enum"}}}

\* the types choose_ctype makes of the names A: each, and each with the star
TypeForms(A) == A \cup {a \o "*" : a \in A}

\* the types a fragment at ps[j] may name
Known(ps, j) == TypeForms(Range(BASE_CTYPES) \cup Introduced(ps, j))

\* C23: the declared type of every var_decl fragment, and the return type and
\* every parameter type of every func_decl fragment, is (a pointer to) a base type
\* or a name that an earlier typedef or enum fragment of parts introduced; a
\* union or struct call adds its name to state.structs and leaves state.typedefs,
\* the only set types are drawn from, as it was
C23_TypesDeclaredBeforeUse ==
    /\ \A j \in Of("var_decl", parts) : parts[j].data[1] \in Known(parts, j)
    /\ \A j \in Of("func_decl", parts) :
          /\ parts[j].data[1] \in Known(parts, j)
          /\ \A k \in 1..Len(parts[j].data[3]) :
                parts[j].data[3][k] \in
                    {",", "void"} \cup {t \o " p" : t \in Known(parts, j)}
    /\ last.kind \in {"union", "struct"} =>
          /\ state.typedefs = last.pre.typedefs
          /\ state.structs = last.pre.structs \cup {last.snippet.data[1]}

\* a function has just been declared that returns an alias introduced before it
\* and takes a pointer to one
C23_Witness ==
    /\ last.kind = "func_decl"
    /\ last.snippet.data[1] \in Introduced(parts, Len(parts))
    /\ \E k \in 1..Len(last.snippet.data[3]) :
          last.snippet.data[3][k] \in
              {a \o "* p" : a \in Introduced(parts, Len(parts))}
====
